---- MODULE Spec2Model ----
(***************************************************************************)
(* Model of the daily calendar summary job (MyEventsTodayEmail).            *)
(*                                                                         *)
(* One run of sendDailyEventSummary is a pipeline:                         *)
(*   loadConfiguration -> fetchCalendarDataBatched (frequency gate,       *)
(*   grouping, one fetch per group through retryOperation) ->              *)
(*   reconciliation by recipient email -> delivery queue ->                *)
(*   sendEmailsBatched (primary channel, fallback channel, both through    *)
(*   retryOperation) -> admin report.                                      *)
(*                                                                         *)
(* Strings are values of a finite universe; a regular expression or a      *)
(* trim/lower-case conversion is modelled by its value on every string of  *)
(* that universe.  A Date is the index of a day (day 0 = Mon 2025-09-01),  *)
(* with the month arithmetic of setDate/getDate.                           *)
(***************************************************************************)
EXTENDS Integers, Sequences, FiniteSets, TLC

VARIABLES
    pc,             \* position of the run inside sendDailyEventSummary
    today,          \* the day of the run (new Date() truncated to midnight)
    rows,           \* data rows of the configuration sheet (header excluded)
    recipients,     \* config.recipients as returned by loadConfiguration
    calendarGroups, \* fetchCalendarDataBatched: groups in insertion order
    calendarCache,  \* fetchCalendarDataBatched: one result per group, same order
    fetchLog,       \* the retry-wrapped operations issued for calendar groups
    lastCalls,      \* the retryOperation calls of the step just taken
    recipientData,  \* sendDailyEventSummary: per-email consolidation, insertion order
    emailQueue,     \* sendDailyEventSummary: the delivery queue
    sendLog,        \* per queued message: what sendEmailsBatched did with it
    batchSleeps,    \* number of inter-batch pauses taken by sendEmailsBatched
    tracker,        \* ExecutionTracker.metrics
    adminReport,    \* classification of the admin report, "" before it is sent
    faultBudget,    \* operations the environment may still let fail in this run
    adminNotices,   \* subjects of the failure notices loadConfiguration mailed
    args,           \* a direct call of one function: its name and arguments
    returned        \* a direct call of one function: what it returned

vars == <<pc, today, rows, recipients, calendarGroups, calendarCache, fetchLog,
          lastCalls, recipientData, emailQueue, sendLog, batchSleeps, tracker, adminReport,
          faultBudget, adminNotices, args, returned>>

(***************************************************************************)
(* Bounds of the model.                                                    *)
(***************************************************************************)
MaxRows == 3          \* data rows of a configuration sheet
MaxLoad == 4          \* data rows plus failing operations of one run
MaxConfigRows == 2    \* data rows of a sheet with arbitrary cells
MaxTransient == 3     \* leading transient failures of one operation script
MaxOps == 4           \* operations applied to a tracker that is used directly
MaxEvents == 2        \* events handed to filterEventsByKeywords
MaxKeywords == 2      \* keywords handed to filterEventsByKeywords
MaxDay == 121         \* last day taken as today: 2025-12-31
MaxQueue == 21        \* messages handed to sendEmailsBatched directly
MaxSendFaults == 2    \* failing operations while such a queue is sent

(***************************************************************************)
(* Generic helpers.                                                        *)
(***************************************************************************)
Range(s) == {s[i] : i \in 1..Len(s)}

SeqsUpTo(S, n) == UNION {[1..k -> S] : k \in 0..n}

RECURSIVE FlattenSeq(_)
FlattenSeq(ss) == IF ss = <<>> THEN <<>> ELSE Head(ss) \o FlattenSeq(Tail(ss))

\* Array.prototype.indexOf, 0-based, -1 when absent
RECURSIVE IndexOfFrom(_, _, _)
IndexOfFrom(s, x, i) ==
    IF i > Len(s) THEN -1
    ELSE IF s[i] = x THEN i - 1
    ELSE IndexOfFrom(s, x, i + 1)

IndexOf(s, x) == IndexOfFrom(s, x, 1)

(***************************************************************************)
(* The string universe.                                                    *)
(***************************************************************************)
\* a property that was never assigned reads as undefined
Undefined == "<undefined>"

RecipientAddresses == {"alice@example.com", "bob@example.com", "carol@example.com"}

CalendarAddresses == {"cal1@gmail.com", "cal2@gmail.com"}

\* matches emailRegex but holds two consecutive dots
DottedAddress == "team..cal@gmail.com"

\* strings of the universe that emailRegex matches; no string holding a comma,
\* a blank or a second '@' is among them
AddressShaped == RecipientAddresses \cup CalendarAddresses \cup {DottedAddress}

\* String.prototype.trim on the strings of the universe
Trim(s) ==
    CASE s = " cal2@gmail.com" -> "cal2@gmail.com"
      [] s = " Disabled " -> "Disabled"
      [] s = "Tomorrow " -> "Tomorrow"
      [] s = " " -> ""
      [] OTHER -> s

\* String.prototype.toLowerCase on the strings of the universe
ToLowerCase(s) ==
    CASE s = "Disabled" -> "disabled"
      [] s = "DISABLED" -> "disabled"
      [] s = "Tomorrow" -> "tomorrow"
      [] s = "Never" -> "never"
      [] OTHER -> s

(***************************************************************************)
(* validateRecipientData                                                   *)
(***************************************************************************)
\* emailRegex.test on a single string
EmailRegexTest(s) == s \in AddressShaped

\* /\.\./.test
HasConsecutiveDots(s) == s = DottedAddress

\* A Calendar ID cell is kept as the list of its comma-separated pieces; the
\* cell text is those pieces joined by ','.  emailRegex has no ',' in any of
\* its character classes, so it matches the cell text only when the cell is a
\* single piece that it matches.
CellIsEmpty(cell) == cell = <<>>

EmailRegexTestCell(cell) == Len(cell) = 1 /\ EmailRegexTest(cell[1])

EmailIsValid(email) ==
    /\ email # ""
    /\ EmailRegexTest(email)
    /\ ~HasConsecutiveDots(email)

\* validateRecipientData(email, calendarId).isValid, calendarId a whole cell
ValidateRecipientCell(email, cell) ==
    EmailIsValid(email) /\ ~CellIsEmpty(cell) /\ EmailRegexTestCell(cell)

\* validateRecipientData(email, calendarId).isValid, calendarId a single id
ValidateRecipientData(email, calendarId) ==
    EmailIsValid(email) /\ calendarId # "" /\ EmailRegexTest(calendarId)

(***************************************************************************)
(* loadConfiguration                                                       *)
(***************************************************************************)
\* calendarId.split(',').map(id => id.trim()).filter(id => id)
(***************************************************************************)
(* filterEventsByKeywords (lines 401-424).  A text is the sequence of its  *)
(* characters.                                                             *)
(***************************************************************************)
\* String.prototype.toLowerCase, character by character
LowerChar(c) ==
    CASE c = "A" -> "a"
      [] c = "B" -> "b"
      [] OTHER -> c

LowerText(text) == [i \in 1..Len(text) |-> LowerChar(text[i])]

\* String.prototype.includes
Includes(text, keyword) ==
    \E at \in 0..(Len(text) - Len(keyword)) :
        \A j \in 1..Len(keyword) : text[at + j] = keyword[j]

\* k.startsWith('-')
StartsWithDash(keyword) == Len(keyword) >= 1 /\ keyword[1] = "-"

\* `${title} ${description} ${location}`, each part lower-cased
EventText(event) ==
    LowerText(event.title) \o <<" ">> \o LowerText(event.description)
        \o <<" ">> \o LowerText(event.location)

\* a filter callback whose include keywords are alternatives
KeepsEventAnyInclude(event, filterKeywords) ==
    LET eventText == EventText(event)
        includeKeywords ==
            SelectSeq(filterKeywords, LAMBDA k : ~StartsWithDash(k))
        excludeKeywords ==
            SelectSeq(filterKeywords, StartsWithDash)
    IN  /\ \/ Len(includeKeywords) = 0
           \/ \E i \in 1..Len(includeKeywords) :
                 Includes(eventText, LowerText(includeKeywords[i]))
        /\ \A i \in 1..Len(excludeKeywords) :
              ~Includes(eventText, LowerText(Tail(excludeKeywords[i])))

\* the callback of events.filter (lines 406-423)
KeepsEvent(event, filterKeywords) ==
    LET eventText == EventText(event)
        includeKeywords ==
            [i \in 1..Len(SelectSeq(filterKeywords, LAMBDA k : ~StartsWithDash(k))) |->
                LowerText(SelectSeq(filterKeywords,
                                    LAMBDA k : ~StartsWithDash(k))[i])]
        excludeKeywords ==
            [i \in 1..Len(SelectSeq(filterKeywords, StartsWithDash)) |->
                LowerText(Tail(SelectSeq(filterKeywords, StartsWithDash)[i]))]
        includesMatch ==
            \/ Len(includeKeywords) = 0
            \/ \A i \in 1..Len(includeKeywords) :
                  Includes(eventText, includeKeywords[i])
        excludesMatch ==
            \A i \in 1..Len(excludeKeywords) :
                ~Includes(eventText, excludeKeywords[i])
    IN  includesMatch /\ excludesMatch

\* the keyword argument: null/undefined, or a list
NoKeywords == [absent |-> TRUE, list |-> <<>>]

KeywordList(list) == [absent |-> FALSE, list |-> list]

\* a filter that returns its input
FilterEventsByKeywordsKeepsAll(events, filterKeywords) == events

FilterEventsByKeywords(events, filterKeywords) ==
    IF filterKeywords.absent \/ Len(filterKeywords.list) = 0 THEN events
    ELSE SelectSeq(events, LAMBDA event : KeepsEvent(event, filterKeywords.list))

(***************************************************************************)
(* loadConfiguration: the rows (lines 87-158)                              *)
(***************************************************************************)
IsNonEmptyString(s) == s # ""

SplitCalendarIds(cell) ==
    SelectSeq([i \in 1..Len(cell) |-> Trim(cell[i])], IsNonEmptyString)

\* String.prototype.trim of a text given by its characters
RECURSIVE TrimText(_)
TrimText(text) ==
    IF text = <<>> THEN <<>>
    ELSE IF Head(text) = " " THEN TrimText(Tail(text))
    ELSE IF text[Len(text)] = " " THEN TrimText(SubSeq(text, 1, Len(text) - 1))
    ELSE text

\* filterKeywords && filterKeywords.trim(): the Filter Keywords cell is the
\* sequence of its pieces between commas; a cell of two or more pieces
\* holds a comma
KeywordsCellIsSet(cell) ==
    \/ Len(cell) >= 2
    \/ Len(cell) = 1 /\ TrimText(cell[1]) # <<>>

\* split(',').map(keyword => keyword.trim().toLowerCase()).filter(keyword => keyword)
ParseKeywords(cell) ==
    SelectSeq([i \in 1..Len(cell) |-> LowerText(TrimText(cell[i]))],
              LAMBDA keyword : keyword # <<>>)

\* the preferences object of one row: a key is set only when its cell is
\* present and non-blank
ParsePreferences(row) ==
    [dateRange |-> IF row.dateRange # "" /\ Trim(row.dateRange) # ""
                   THEN ToLowerCase(Trim(row.dateRange)) ELSE Undefined,
     frequency |-> IF row.frequency # "" /\ Trim(row.frequency) # ""
                   THEN ToLowerCase(Trim(row.frequency)) ELSE Undefined,
     filterKeywords |-> IF KeywordsCellIsSet(row.filterKeywords)
                        THEN KeywordList(ParseKeywords(row.filterKeywords))
                        ELSE NoKeywords]

\* an opt-out test that compares the Status cell as written
RowIsOptedOutExact(row) == row.status = "disabled"

RowIsOptedOut(row) ==
    row.status # "" /\ ToLowerCase(Trim(row.status)) = "disabled"

\* the recipient entries one row contributes (lines 90-158)
RowRecipients(row) ==
    IF row.email = "" \/ CellIsEmpty(row.calendarId) THEN <<>>
    ELSE IF ~ValidateRecipientCell(row.email, row.calendarId) THEN <<>>
    ELSE IF RowIsOptedOut(row) THEN <<>>
    ELSE LET calendarIds == SplitCalendarIds(row.calendarId)
             preferences == ParsePreferences(row)
             entry(i) == [email |-> row.email,
                          calendarId |-> calendarIds[i],
                          preferences |-> preferences,
                          isMultiCalendar |-> Len(calendarIds) > 1,
                          calendarIndex |-> IndexOf(calendarIds, calendarIds[i]),
                          totalCalendars |-> Len(calendarIds)]
             valid(i) == ValidateRecipientData(row.email, calendarIds[i])
         IN  FlattenSeq([i \in 1..Len(calendarIds) |->
                            IF valid(i) THEN <<entry(i)>> ELSE <<>>])

\* config.recipients for a sheet that could be read (lines 87-165)
LoadRecipients(sheetRows) ==
    FlattenSeq([i \in 1..Len(sheetRows) |-> RowRecipients(sheetRows[i])])

(***************************************************************************)
(* Dates.  A Date at midnight is the index of its day; day 0 is Monday     *)
(* 2025-09-01.  The window holds August 2025 .. January 2026.              *)
(***************************************************************************)
\* index of the first day of each month of the window
MonthStarts == {-31, 0, 30, 61, 91, 122}

\* first day of the month that holds day d
MonthStart(d) ==
    CHOOSE m \in MonthStarts : m <= d /\ \A n \in MonthStarts : n <= d => n <= m

\* Date.prototype.getDay: 0 = Sunday .. 6 = Saturday
GetDay(d) == (d + 1) % 7

\* Date.prototype.getDate: day of the month, 1-based
GetDate(d) == d - MonthStart(d) + 1

\* Date.prototype.setDate: day k of the month of d; a k outside the month
\* rolls over into the neighbouring months
SetDate(d, k) == MonthStart(d) + k - 1

(***************************************************************************)
(* shouldSendEmail, calculateDateRange                                     *)
(***************************************************************************)
\* a || b on strings and undefined
OrDefault(value, default) ==
    IF value = Undefined \/ value = "" THEN default ELSE value

\* a gate that numbers the days of the week from Monday = 0
ShouldSendEmailFromMonday(frequency, day) ==
    LET dayOfWeek == day % 7
    IN  CASE frequency = "daily" -> TRUE
          [] frequency \in {"weekdays only", "weekdays"} ->
                dayOfWeek >= 1 /\ dayOfWeek <= 5
          [] frequency \in {"mondays only", "monday"} -> dayOfWeek = 1
          [] frequency \in {"wednesdays only", "wednesday"} -> dayOfWeek = 3
          [] frequency \in {"fridays only", "friday"} -> dayOfWeek = 5
          [] frequency \in {"weekends only", "weekends"} ->
                dayOfWeek = 0 \/ dayOfWeek = 6
          [] frequency \in {"never", "disabled"} -> FALSE
          [] OTHER -> TRUE

ShouldSendEmail(frequency, day) ==
    LET dayOfWeek == GetDay(day)
    IN  CASE frequency = "daily" -> TRUE
          [] frequency \in {"weekdays only", "weekdays"} ->
                dayOfWeek >= 1 /\ dayOfWeek <= 5
          [] frequency \in {"mondays only", "monday"} -> dayOfWeek = 1
          [] frequency \in {"wednesdays only", "wednesday"} -> dayOfWeek = 3
          [] frequency \in {"fridays only", "friday"} -> dayOfWeek = 5
          [] frequency \in {"weekends only", "weekends"} ->
                dayOfWeek = 0 \/ dayOfWeek = 6
          [] frequency \in {"never", "disabled"} -> FALSE
          [] OTHER -> TRUE

\* a resolver whose 'next week' sets the end date on a copy of today
CalculateDateRangeEndFromToday(dateRange, day) ==
    CASE dateRange = "tomorrow" ->
            [startDate |-> SetDate(day, GetDate(day) + 1),
             endDate |-> SetDate(day, GetDate(day) + 2),
             description |-> "tomorrow"]
      [] dateRange \in {"next 3 days", "next3days"} ->
            [startDate |-> day,
             endDate |-> SetDate(day, GetDate(day) + 3),
             description |-> "the next 3 days"]
      [] dateRange \in {"this week", "thisweek"} ->
            LET startDate == SetDate(day, GetDate(day) - GetDay(day))
            IN  [startDate |-> startDate,
                 endDate |-> SetDate(day, GetDate(startDate) + 7),
                 description |-> "this week"]
      [] dateRange \in {"next week", "nextweek"} ->
            LET nextWeekStart == SetDate(day, GetDate(day) + (7 - GetDay(day)))
            IN  [startDate |-> nextWeekStart,
                 endDate |-> SetDate(day, GetDate(nextWeekStart) + 7),
                 description |-> "next week"]
      [] dateRange \in {"weekdays only", "weekdays"} ->
            [startDate |-> day,
             endDate |-> SetDate(day, GetDate(day) + 1),
             description |-> "today (weekdays only)"]
      [] OTHER ->
            [startDate |-> day,
             endDate |-> SetDate(day, GetDate(day) + 1),
             description |-> "today"]

CalculateDateRange(dateRange, day) ==
    CASE dateRange = "today" ->
            [startDate |-> day,
             endDate |-> SetDate(day, GetDate(day) + 1),
             description |-> "today"]
      [] dateRange = "tomorrow" ->
            [startDate |-> SetDate(day, GetDate(day) + 1),
             endDate |-> SetDate(day, GetDate(day) + 2),
             description |-> "tomorrow"]
      [] dateRange \in {"next 3 days", "next3days"} ->
            [startDate |-> day,
             endDate |-> SetDate(day, GetDate(day) + 3),
             description |-> "the next 3 days"]
      [] dateRange \in {"this week", "thisweek"} ->
            LET startDate == SetDate(day, GetDate(day) - GetDay(day))
            IN  [startDate |-> startDate,
                 \* endDate is still a copy of today when setDate is applied
                 endDate |-> SetDate(day, GetDate(startDate) + 7),
                 description |-> "this week"]
      [] dateRange \in {"next week", "nextweek"} ->
            LET nextWeekStart == SetDate(day, GetDate(day) + (7 - GetDay(day)))
            IN  [startDate |-> nextWeekStart,
                 endDate |-> SetDate(nextWeekStart, GetDate(nextWeekStart) + 7),
                 description |-> "next week"]
      [] dateRange \in {"weekdays only", "weekdays"} ->
            [startDate |-> day,
             endDate |-> SetDate(day, GetDate(day) + 1),
             description |-> "today (weekdays only)"]
      [] OTHER ->
            [startDate |-> day,
             endDate |-> SetDate(day, GetDate(day) + 1),
             description |-> "today"]

(***************************************************************************)
(* fetchCalendarDataBatched: frequency gate and grouping (lines 545-572)   *)
(***************************************************************************)
\* a gate that lets every recipient through
PassesFrequencyGateAlways(recipient, day) == TRUE

PassesFrequencyGate(recipient, day) ==
    ShouldSendEmail(OrDefault(recipient.preferences.frequency, "daily"), day)

ActiveRecipients(list, day) ==
    LET keep(r) == PassesFrequencyGate(r, day) IN SelectSeq(list, keep)

RecipientDateRange(recipient, day) ==
    CalculateDateRange(OrDefault(recipient.preferences.dateRange, "today"), day)

\* a key made of the calendar alone
GroupKeyCalendarOnly(recipient, day) == <<recipient.calendarId, 0, 0>>

\* `${calendarId}|${startDate.getTime()}|${endDate.getTime()}`
GroupKey(recipient, day) ==
    LET dateRange == RecipientDateRange(recipient, day)
    IN  <<recipient.calendarId, dateRange.startDate, dateRange.endDate>>

\* position of the group with this key, 0 when there is none
GroupIndex(groups, key) ==
    IF \E i \in 1..Len(groups) : groups[i].key = key
    THEN CHOOSE i \in 1..Len(groups) : groups[i].key = key
    ELSE 0

\* a grouping that opens a group for every recipient
AddToGroupsAlwaysNew(groups, recipient, day) ==
    Append(groups, [key |-> <<recipient.calendarId,
                              RecipientDateRange(recipient, day).startDate,
                              RecipientDateRange(recipient, day).endDate>>,
                    calendarId |-> recipient.calendarId,
                    dateRange |-> RecipientDateRange(recipient, day),
                    recipients |-> <<recipient>>])

\* one iteration of activeRecipients.forEach (lines 560-572)
AddToGroups(groups, recipient, day) ==
    LET key == GroupKey(recipient, day)
        at == GroupIndex(groups, key)
    IN  IF at = 0
        THEN Append(groups, [key |-> key,
                             calendarId |-> recipient.calendarId,
                             dateRange |-> RecipientDateRange(recipient, day),
                             recipients |-> <<recipient>>])
        ELSE [groups EXCEPT ![at].recipients = Append(@, recipient)]

RECURSIVE GroupFrom(_, _, _)
GroupFrom(groups, list, day) ==
    IF list = <<>> THEN groups
    ELSE GroupFrom(AddToGroups(groups, Head(list), day), Tail(list), day)

\* calendarGroups, in key insertion order (Object.keys order)
GroupRecipients(list, day) == GroupFrom(<<>>, ActiveRecipients(list, day), day)

(***************************************************************************)
(* retryOperation, isRetryableError                                        *)
(*                                                                         *)
(* The operation handed to retryOperation is an external call.  Its        *)
(* behaviour is a script: the outcome of its 1st, 2nd, ... invocation,     *)
(* the last outcome repeating.  An outcome is "ok" or the message of the   *)
(* error thrown.                                                           *)
(***************************************************************************)
TransientMessage == "Rate limit exceeded"

\* also stands for the lookup closure's own 'Calendar with ID ... not found'
PermanentMessage == "Access denied"

ErrorMessages == {TransientMessage, PermanentMessage}

RetryablePatterns ==
    {"service is currently unavailable", "temporary failure", "rate limit",
     "quota.*exceeded", "timeout", "network.*error", "internal.*error",
     "service.*error"}

\* pattern.test(message), case-insensitive, on the messages of the universe
PatternTest(pattern, message) ==
    pattern = "rate limit" /\ message = TransientMessage

\* a classification that takes every error for transient
IsRetryableErrorAlways(message) == message \in ErrorMessages

IsRetryableError(message) ==
    \E pattern \in RetryablePatterns : PatternTest(pattern, message)

OutcomeAt(script, n) ==
    IF n <= Len(script) THEN script[n] ELSE script[Len(script)]

\* default value of the maxRetries parameter
DefaultMaxRetries == 3

\* the for loop of retryOperation from iteration `attempt` on; seen holds
\* the outcomes of the invocations made so far, slept counts the
\* Utilities.sleep calls made so far
RECURSIVE RetryLoop(_, _, _, _, _, _)
RetryLoop(script, maxRetries, attempt, seen, slept, lastError) ==
    IF attempt > maxRetries
    THEN [ok |-> FALSE, error |-> lastError, seen |-> seen, sleeps |-> slept]
    ELSE LET outcome == OutcomeAt(script, attempt + 1)
             now == Append(seen, outcome)
         IN  IF outcome = "ok"
             THEN [ok |-> TRUE, error |-> "", seen |-> now, sleeps |-> slept]
             ELSE IF ~IsRetryableError(outcome) \/ attempt = maxRetries
             THEN [ok |-> FALSE, error |-> outcome, seen |-> now, sleeps |-> slept]
             ELSE RetryLoop(script, maxRetries, attempt + 1, now, slept + 1,
                            outcome)

\* a retry loop that makes one attempt too many
RetryOperationOneMore(script, maxRetries) ==
    RetryLoop(script, maxRetries + 1, 0, <<>>, 0, "")

\* retryOperation(operation, maxRetries): whether it returned or threw, the
\* error thrown, the outcome of each invocation of the operation, and how
\* often it slept
RetryOperation(script, maxRetries) ==
    RetryLoop(script, maxRetries, 0, <<>>, 0, "")

\* behaviours of one external operation
Scripts ==
    {<<TransientMessage>>} \cup
    {[i \in 1..(k + 1) |-> IF i <= k THEN TransientMessage ELSE final] :
        k \in 0..MaxTransient, final \in {"ok", PermanentMessage}}

IsFaulty(script) == script # <<"ok">>

FaultCost(script) == IF IsFaulty(script) THEN 1 ELSE 0

\* the scripts the environment may still play with this budget
ScriptsWithin(budget) == IF budget > 0 THEN Scripts ELSE {<<"ok">>}

(***************************************************************************)
(* ExecutionTracker                                                        *)
(***************************************************************************)
NewTracker ==
    [calendarsProcessed |-> 0, eventsFound |-> 0, emailsSent |-> 0,
     emailsFailed |-> 0, retriesPerformed |-> 0, errors |-> <<>>]

IncrementCalendars(t) == [t EXCEPT !.calendarsProcessed = @ + 1]

AddEvents(t, count) == [t EXCEPT !.eventsFound = @ + count]

IncrementEmailsSent(t) == [t EXCEPT !.emailsSent = @ + 1]

IncrementEmailsFailed(t) == [t EXCEPT !.emailsFailed = @ + 1]

IncrementRetries(t) == [t EXCEPT !.retriesPerformed = @ + 1]

AddError(t, message, context) ==
    [t EXCEPT !.errors = Append(@, [message |-> message, context |-> context])]

\* a summary that looks at the errors list only
SummarySuccessErrorsOnly(t) == Len(t.errors) = 0

\* getSummary().success
SummarySuccess(t) == Len(t.errors) = 0 /\ t.emailsFailed = 0

\* the classification in the subject of the admin report
AdminSubject(success) == IF success THEN "SUCCESS" ELSE "FAILED"

\* a catch block that swallows the error
CatchMainExecutionSilent(t, message) == t

\* the catch block around the pipeline
CatchMainExecution(t, message) == AddError(t, message, <<"Main execution", "">>)

(***************************************************************************)
(* The calendar service: CalendarApp                                       *)
(***************************************************************************)
CalendarName(calendarId) ==
    IF calendarId = "cal1@gmail.com" THEN "Team Calendar" ELSE "Ops Calendar"

\* the events a calendar holds, in the order the service returns them;
\* the texts are sequences of characters, startTime is in hours since day 0
CalendarEvents(calendarId, day) ==
    IF calendarId = "cal1@gmail.com"
    THEN <<[title |-> <<"A">>, description |-> <<>>, location |-> <<>>,
            startTime |-> day * 24 + 9],
           [title |-> <<"c">>, description |-> <<>>, location |-> <<"a">>,
            startTime |-> (day + 1) * 24 + 14]>>
    ELSE <<[title |-> <<"b">>, description |-> <<"B">>, location |-> <<>>,
            startTime |-> day * 24 + 8],
           [title |-> <<"a", "b">>, description |-> <<>>, location |-> <<>>,
            startTime |-> day * 24 + 12]>>

\* calendar.getEvents(startDate, endDate)
GetEvents(calendarId, startDate, endDate, day) ==
    LET within(e) == e.startTime >= startDate * 24 /\ e.startTime < endDate * 24
    IN  SelectSeq(CalendarEvents(calendarId, day), within)

(***************************************************************************)
(* fetchCalendarDataBatched: the fetch of one group (lines 577-624)        *)
(***************************************************************************)
\* the calendarCache entry of a group, from the results of the lookup and
\* of the event query
CacheEntry(group, lookup, query, day) ==
    IF lookup.ok /\ query.ok
    THEN [key |-> group.key,
          calendar |-> CalendarName(group.calendarId),
          events |-> GetEvents(group.calendarId, group.dateRange.startDate,
                               group.dateRange.endDate, day),
          recipients |-> group.recipients,
          dateRange |-> group.dateRange,
          success |-> TRUE,
          error |-> ""]
    ELSE [key |-> group.key,
          calendar |-> Undefined,
          events |-> <<>>,
          recipients |-> group.recipients,
          dateRange |-> group.dateRange,
          success |-> FALSE,
          error |-> IF lookup.ok THEN query.error ELSE lookup.error]

\* a tracker that counts every group as processed
TrackFetchCountsEveryGroup(t, group, entry) ==
    IF entry.success
    THEN AddEvents(IncrementCalendars(t), Len(entry.events))
    ELSE AddError(IncrementCalendars(t), entry.error,
                  <<"Accessing calendar", group.calendarId>>)

\* the tracker after the fetch of a group
TrackFetch(t, group, entry) ==
    IF entry.success
    THEN AddEvents(IncrementCalendars(t), Len(entry.events))
    ELSE AddError(t, entry.error, <<"Accessing calendar", group.calendarId>>)

\* the operations issued for a group, each through retryOperation: the event
\* query is reached only when the lookup returned
FetchOps(group, lookup) ==
    <<[op |-> "lookup", key |-> group.key]>> \o
    (IF lookup.ok THEN <<[op |-> "query", key |-> group.key]>> ELSE <<>>)

\* the retryOperation calls made while a group is fetched
FetchCalls(lookup, query) == IF lookup.ok THEN <<lookup, query>> ELSE <<lookup>>

(***************************************************************************)
(* sendDailyEventSummary: reconciliation by recipient (lines 866-896)      *)
(***************************************************************************)
\* position of the entry of this email, 0 when there is none
RecipientIndex(data, email) ==
    IF \E i \in 1..Len(data) : data[i].email = email
    THEN CHOOSE i \in 1..Len(data) : data[i].email = email
    ELSE 0

\* a reconciliation that flags the failure but drops its reason
ReconcileRecipientNoReason(data, entry, recipient) ==
    LET created ==
            IF RecipientIndex(data, recipient.email) = 0
            THEN Append(data, [email |-> recipient.email,
                               recipient |-> recipient,
                               calendars |-> <<>>,
                               dateRange |-> entry.dateRange,
                               hasErrors |-> FALSE,
                               errors |-> <<>>])
            ELSE data
        at == RecipientIndex(created, recipient.email)
    IN  IF entry.success
        THEN [created EXCEPT ![at].calendars =
                  Append(@, [calendar |-> entry.calendar,
                             events |-> entry.events,
                             success |-> TRUE])]
        ELSE [created EXCEPT ![at].hasErrors = TRUE]

\* one iteration of data.recipients.forEach
ReconcileRecipient(data, entry, recipient) ==
    LET created ==
            IF RecipientIndex(data, recipient.email) = 0
            THEN Append(data, [email |-> recipient.email,
                               recipient |-> recipient,
                               calendars |-> <<>>,
                               dateRange |-> entry.dateRange,
                               hasErrors |-> FALSE,
                               errors |-> <<>>])
            ELSE data
        at == RecipientIndex(created, recipient.email)
    IN  IF entry.success
        THEN [created EXCEPT ![at].calendars =
                  Append(@, [calendar |-> entry.calendar,
                             events |-> entry.events,
                             success |-> TRUE])]
        ELSE [created EXCEPT
                  ![at].hasErrors = TRUE,
                  ![at].errors =
                      Append(@, [calendarId |-> IF entry.calendar # Undefined
                                                THEN entry.calendar
                                                ELSE "Unknown",
                                 error |-> entry.error])]

RECURSIVE ReconcileGroup(_, _, _)
ReconcileGroup(data, entry, list) ==
    IF list = <<>> THEN data
    ELSE ReconcileGroup(ReconcileRecipient(data, entry, Head(list)), entry,
                        Tail(list))

RECURSIVE ReconcileFrom(_, _)
ReconcileFrom(data, cache) ==
    IF cache = <<>> THEN data
    ELSE ReconcileFrom(ReconcileGroup(data, Head(cache), Head(cache).recipients),
                       Tail(cache))

\* a reconciliation that walks the groups from the last to the first
ReconcileLastFirst(cache) ==
    ReconcileFrom(<<>>, [i \in 1..Len(cache) |-> cache[Len(cache) + 1 - i]])

\* recipientData, in key insertion order
Reconcile(cache) == ReconcileFrom(<<>>, cache)

(***************************************************************************)
(* sendDailyEventSummary: the delivery queue (lines 899-965)               *)
(***************************************************************************)
\* Array.prototype.sort by start time; the sort is stable
RECURSIVE InsertByStart(_, _)
InsertByStart(sorted, e) ==
    IF sorted = <<>> THEN <<e>>
    ELSE IF e.startTime < Head(sorted).startTime THEN <<e>> \o sorted
    ELSE <<Head(sorted)>> \o InsertByStart(Tail(sorted), e)

RECURSIVE SortByStartFrom(_, _)
SortByStartFrom(sorted, rest) ==
    IF rest = <<>> THEN sorted
    ELSE SortByStartFrom(InsertByStart(sorted, Head(rest)), Tail(rest))

SortByStart(events) == SortByStartFrom(<<>>, events)

\* description.charAt(0).toUpperCase() + description.slice(1)
Capitalize(description) ==
    CASE description = "tomorrow" -> "Tomorrow"
      [] description = "today (weekdays only)" -> "Today (weekdays only)"
      [] description = "the next 3 days" -> "The next 3 days"
      [] description = "this week" -> "This week"
      [] description = "next week" -> "Next week"
      [] OTHER -> description

\* the subject of a summary: a fixed text, or "Your Events " followed by
\* the capitalized description
SummarySubject(description) ==
    IF description # "today"
    THEN <<"Your Events", Capitalize(description)>>
    ELSE <<"Your Events for the Day">>

\* `${calendarNames.length} calendars`, or the only name
CalendarDisplayName(calendarNames) ==
    IF Len(calendarNames) > 1
    THEN (CASE Len(calendarNames) = 2 -> "2 calendars"
            [] Len(calendarNames) = 3 -> "3 calendars"
            [] OTHER -> "4 or more calendars")
    ELSE IF Len(calendarNames) = 1 THEN calendarNames[1]
    ELSE Undefined

ErrorSubject == <<"Calendar Summary Error: Calendars Not Found">>

\* a queue builder that sends the error notice on any failed calendar
BuildMessageErrorOnAnyFailure(data) ==
    IF data.hasErrors
    THEN [to |-> data.email,
          kind |-> "error",
          subject |-> ErrorSubject,
          events |-> <<>>,
          calendarName |-> Undefined,
          description |-> Undefined,
          errors |-> [i \in 1..Len(data.errors) |-> data.errors[i].error]]
    ELSE [to |-> data.email,
          kind |-> "summary",
          subject |-> SummarySubject(data.dateRange.description),
          events |-> SortByStart(FilterEventsByKeywords(
                         FlattenSeq([i \in 1..Len(data.calendars) |->
                                        data.calendars[i].events]),
                         data.recipient.preferences.filterKeywords)),
          calendarName |-> CalendarDisplayName(
                               [i \in 1..Len(data.calendars) |->
                                   data.calendars[i].calendar]),
          description |-> data.dateRange.description,
          errors |-> <<>>]

\* the message queued for one entry of recipientData
BuildMessage(data) ==
    IF data.hasErrors /\ Len(data.calendars) = 0
    THEN [to |-> data.email,
          kind |-> "error",
          subject |-> ErrorSubject,
          events |-> <<>>,
          calendarName |-> Undefined,
          description |-> Undefined,
          errors |-> [i \in 1..Len(data.errors) |-> data.errors[i].error]]
    ELSE LET merged ==
                 FlattenSeq([i \in 1..Len(data.calendars) |->
                                data.calendars[i].events])
             allEvents ==
                 IF ~data.recipient.preferences.filterKeywords.absent
                 THEN FilterEventsByKeywords(
                          merged, data.recipient.preferences.filterKeywords)
                 ELSE merged
             calendarNames ==
                 [i \in 1..Len(data.calendars) |-> data.calendars[i].calendar]
         IN  [to |-> data.email,
              kind |-> "summary",
              subject |-> SummarySubject(data.dateRange.description),
              events |-> SortByStart(allEvents),
              calendarName |-> CalendarDisplayName(calendarNames),
              description |-> data.dateRange.description,
              errors |-> <<>>]

BuildEmailQueue(data) == [i \in 1..Len(data) |-> BuildMessage(data[i])]

(***************************************************************************)
(* sendEmailsBatched (lines 757-805)                                       *)
(***************************************************************************)
BATCH_SIZE == 10

\* a tracker that counts a message as failed as soon as the primary throws
TrackSendFailsEarly(t, to, primary, fallback) ==
    IF primary.ok THEN IncrementEmailsSent(t)
    ELSE LET noted == IncrementEmailsFailed(
                          AddError(t, primary.error, <<"Sending email to", to>>))
         IN  IF fallback.ok THEN IncrementEmailsSent(noted)
             ELSE AddError(noted, fallback.error, <<"Fallback email to", to>>)

\* a tracker that records an error only when both channels failed
TrackSendQuietFallback(t, to, primary, fallback) ==
    IF primary.ok \/ fallback.ok THEN IncrementEmailsSent(t)
    ELSE AddError(IncrementEmailsFailed(t), fallback.error,
                  <<"Fallback email to", to>>)

\* a tracker that does not count the messages no channel delivered
TrackSendForgetsFailed(t, to, primary, fallback) ==
    IF primary.ok THEN IncrementEmailsSent(t)
    ELSE LET noted == AddError(t, primary.error, <<"Sending email to", to>>)
         IN  IF fallback.ok THEN IncrementEmailsSent(noted)
             ELSE AddError(noted, fallback.error, <<"Fallback email to", to>>)

\* the tracker after one message was attempted (lines 767-797)
TrackSend(t, to, primary, fallback) ==
    IF primary.ok THEN IncrementEmailsSent(t)
    ELSE LET noted == AddError(t, primary.error, <<"Sending email to", to>>)
         IN  IF fallback.ok THEN IncrementEmailsSent(noted)
             ELSE AddError(IncrementEmailsFailed(noted), fallback.error,
                           <<"Fallback email to", to>>)

\* what was done with one message: the channels tried, in order, and
\* whether each delivered
SendRecord(to, primary, fallback) ==
    [to |-> to,
     tried |-> IF primary.ok THEN <<"GmailApp">> ELSE <<"GmailApp", "MailApp">>,
     delivered |-> IF primary.ok THEN "GmailApp"
                   ELSE IF fallback.ok THEN "MailApp"
                   ELSE "none"]

\* the retryOperation calls made for one message
SendCalls(primary, fallback) ==
    IF primary.ok THEN <<primary>> ELSE <<primary, fallback>>

\* a pause after every batch, the last one too
PauseAfterEveryBatch(i, n) == i % BATCH_SIZE = 0 \/ i = n

\* whether the pause of line 802 follows message number i (1-based) of n
PauseAfter(i, n) == i % BATCH_SIZE = 0 /\ i < n

(***************************************************************************)
(* The configuration sheets of the model.                                  *)
(***************************************************************************)
\* a row whose Filter Keywords cell is empty
Row(email, cell, dateRange, frequency, status) ==
    [email |-> email, calendarId |-> cell, dateRange |-> dateRange,
     frequency |-> frequency, status |-> status, filterKeywords |-> <<>>]

KeywordRow(email, cell, dateRange, filterKeywords) ==
    [email |-> email, calendarId |-> cell, dateRange |-> dateRange,
     frequency |-> "", status |-> "", filterKeywords |-> filterKeywords]

Todays == {23}

RecipientOrder == <<"alice@example.com", "bob@example.com", "carol@example.com">>

CalendarOrder == <<"cal1@gmail.com", "cal2@gmail.com">>

Position(order, x) == CHOOSE k \in 1..Len(order) : order[k] = x

\* The run treats addresses as opaque strings.  Of the sheets that differ
\* only by a renaming of the addresses one is kept: the one that introduces
\* the addresses in the order of `order`.
InOrderOfFirstUse(values, order) ==
    \A i \in 1..Len(values) :
        \A k \in 1..(Position(order, values[i]) - 1) :
            \E j \in 1..(i - 1) : values[j] = order[k]

Renamed(sheet) ==
    /\ InOrderOfFirstUse([i \in 1..Len(sheet) |-> sheet[i].email], RecipientOrder)
    /\ InOrderOfFirstUse([i \in 1..Len(sheet) |-> sheet[i].calendarId[1]],
                         CalendarOrder)

\* rows of valid recipients on one calendar each, with a date range
DateRangeRows ==
    {Row(e, <<c>>, d, "", "") :
        e \in RecipientAddresses, c \in CalendarAddresses,
        d \in {"", "Tomorrow ", "weekdays"}}

\* rows of valid recipients on one calendar each, with a date range or a
\* frequency that never sends
FrequencyRows ==
    {Row(e, <<c>>, d, "", "") :
        e \in RecipientAddresses, c \in CalendarAddresses, d \in {"", "Tomorrow "}}
    \cup
    {Row(e, <<c>>, "", "Never", "") :
        e \in RecipientAddresses, c \in CalendarAddresses}

\* rows with arbitrary cells
ConfigRows ==
    {Row(e, cell, d, "", st) :
        e \in {"alice@example.com", "not-an-email"},
        cell \in {<<>>, <<"cal1@gmail.com">>, <<" cal2@gmail.com">>,
                  <<"cal1@gmail.com", "cal2@gmail.com">>,
                  <<"cal1@gmail.com", " cal2@gmail.com">>,
                  <<"cal1@gmail.com", "bad id">>, <<DottedAddress>>},
        d \in {"", "Tomorrow "},
        st \in {"", " Disabled "}}

\* rows of valid recipients on one calendar each, with a Status
StatusRows ==
    {Row(e, <<c>>, "", "", st) :
        e \in RecipientAddresses, c \in CalendarAddresses,
        st \in {"", "Disabled", "DISABLED"}}

\* Filter Keywords cells: empty, blank, 'A', ' -ab', 'b,-a' and ','
KeywordCells ==
    {<<>>, <<<<" ">>>>, <<<<"A">>>>, <<<<" ", "-", "a", "b">>>>,
     <<<<"b">>, <<"-", "a">>>>, <<<<>>, <<>>>>}

\* rows of one recipient on one calendar each, with a date range and a
\* Filter Keywords cell
KeywordRows ==
    {KeywordRow("alice@example.com", <<c>>, d, k) :
        c \in CalendarAddresses, d \in {"", "Tomorrow "}, k \in KeywordCells}

Sheets(pool, n) == {sheet \in SeqsUpTo(pool, n) : Renamed(sheet)}

(***************************************************************************)
(* The run: sendDailyEventSummary (lines 844-995)                          *)
(***************************************************************************)
InitRun ==
    /\ pc = "load"
    /\ today \in Todays
    /\ recipients = <<>>
    /\ calendarGroups = <<>>
    /\ calendarCache = <<>>
    /\ fetchLog = <<>>
    /\ lastCalls = <<>>
    /\ recipientData = <<>>
    /\ emailQueue = <<>>
    /\ sendLog = <<>>
    /\ batchSleeps = 0
    /\ tracker = NewTracker
    /\ adminReport = ""
    /\ adminNotices = <<>>
    /\ args = <<>>
    /\ returned = <<>>

Init ==
    /\ InitRun
    /\ rows \in Sheets(DateRangeRows, MaxRows)
    /\ faultBudget = MaxLoad - Len(rows)

InitFrequency ==
    /\ InitRun
    /\ rows \in Sheets(FrequencyRows, MaxRows)
    /\ faultBudget = MaxLoad - Len(rows)

InitConfig ==
    /\ InitRun
    /\ rows \in SeqsUpTo(ConfigRows, MaxConfigRows)
    /\ faultBudget = 0

InitStatus ==
    /\ InitRun
    /\ rows \in Sheets(StatusRows, MaxRows)
    /\ faultBudget = MaxLoad - Len(rows)

InitKeywords ==
    /\ InitRun
    /\ rows \in Sheets(KeywordRows, MaxRows)
    /\ faultBudget = MaxLoad - Len(rows)

\* what loadConfiguration meets: a missing spreadsheet id (it throws), a
\* spreadsheet or sheet that cannot be opened, a header row without the
\* required columns, or a readable sheet
LoadOutcomes == {"no id", "unreadable", "no columns", "readable"}

MissingIdMessage == "SPREADSHEET_ID not configured!"

\* the notice loadConfiguration mails to the script owner before it returns
\* null
LoadNotice(outcome) ==
    CASE outcome = "unreadable" -> <<"CRITICAL: Calendar Summary Script Failure">>
      [] outcome = "no columns" ->
            <<"ERROR: Calendar Summary Script - Missing Columns">>
      [] OTHER -> <<>>

\* loadConfiguration returns null
ConfigIsNull(outcome, sheetRows) ==
    outcome \in {"unreadable", "no columns"} \/ Len(sheetRows) < 1

\* const config = loadConfiguration() (lines 852-857): a throw is caught by
\* the catch block of the run, and on null the function returns
LoadConfiguration ==
    /\ pc = "load"
    /\ lastCalls' = <<>>
    /\ \E outcome \in LoadOutcomes :
          /\ adminNotices' = LoadNotice(outcome)
          /\ IF outcome = "no id"
             THEN /\ tracker' = CatchMainExecution(tracker, MissingIdMessage)
                  /\ pc' = "report"
                  /\ UNCHANGED recipients
             ELSE IF ConfigIsNull(outcome, rows)
             THEN /\ tracker' = AddError(tracker, "Failed to load configuration",
                                         <<"Configuration loading", "">>)
                  /\ pc' = "done"
                  /\ UNCHANGED recipients
             ELSE /\ recipients' = LoadRecipients(rows)
                  /\ pc' = "group"
                  /\ UNCHANGED tracker
    /\ UNCHANGED <<today, rows, calendarGroups, calendarCache, fetchLog,
                   recipientData, emailQueue, sendLog, batchSleeps, adminReport,
                   faultBudget, args, returned>>

\* fetchCalendarDataBatched, lines 545-572
GroupActiveRecipients ==
    /\ pc = "group"
    /\ lastCalls' = <<>>
    /\ calendarGroups' = GroupRecipients(recipients, today)
    /\ pc' = "fetch"
    /\ UNCHANGED <<today, rows, recipients, calendarCache, fetchLog,
                   recipientData, emailQueue, sendLog, batchSleeps, tracker,
                   adminReport, faultBudget>>
    /\ UNCHANGED <<adminNotices, args, returned>>

\* fetchCalendarDataBatched, one iteration of lines 577-624
FetchGroup ==
    /\ pc = "fetch"
    /\ Len(calendarCache) < Len(calendarGroups)
    /\ \E lookupScript \in ScriptsWithin(faultBudget) :
       \E queryScript \in ScriptsWithin(faultBudget - FaultCost(lookupScript)) :
          LET group == calendarGroups[Len(calendarCache) + 1]
              lookup == RetryOperation(lookupScript, DefaultMaxRetries)
              query == RetryOperation(queryScript, DefaultMaxRetries)
              entry == CacheEntry(group, lookup, query, today)
          IN  /\ ~lookup.ok => ~IsFaulty(queryScript)
              /\ faultBudget' = faultBudget - FaultCost(lookupScript)
                                             - FaultCost(queryScript)
              /\ calendarCache' = Append(calendarCache, entry)
              /\ fetchLog' = fetchLog \o FetchOps(group, lookup)
              /\ lastCalls' = FetchCalls(lookup, query)
              /\ tracker' = TrackFetch(tracker, group, entry)
    /\ UNCHANGED <<pc, today, rows, recipients, calendarGroups, recipientData,
                   emailQueue, sendLog, batchSleeps, adminReport>>
    /\ UNCHANGED <<adminNotices, args, returned>>

\* lines 866-896
ReconcileRecipients ==
    /\ pc = "fetch"
    /\ lastCalls' = <<>>
    /\ Len(calendarCache) = Len(calendarGroups)
    /\ recipientData' = Reconcile(calendarCache)
    /\ pc' = "build"
    /\ UNCHANGED <<today, rows, recipients, calendarGroups, calendarCache,
                   fetchLog, emailQueue, sendLog, batchSleeps, tracker,
                   adminReport, faultBudget>>
    /\ UNCHANGED <<adminNotices, args, returned>>

\* calData.calendar.getName() and generateEmailBody run outside any inner
\* try: they are called for an entry that has a calendar source
QueueBuildingCanThrow(data) ==
    \E i \in 1..Len(data) : data[i].calendars # <<>>

\* lines 899-965; a throw leaves the queue unsent and is caught by the catch
\* block of the run (lines 974-977)
QueueMessages ==
    /\ pc = "build"
    /\ lastCalls' = <<>>
    /\ \/ /\ emailQueue' = BuildEmailQueue(recipientData)
          /\ pc' = "send"
          /\ UNCHANGED <<tracker, faultBudget>>
       \/ /\ faultBudget > 0
          /\ QueueBuildingCanThrow(recipientData)
          /\ \E message \in ErrorMessages :
                tracker' = CatchMainExecution(tracker, message)
          /\ faultBudget' = faultBudget - 1
          /\ pc' = "report"
          /\ UNCHANGED emailQueue
    /\ UNCHANGED <<today, rows, recipients, calendarGroups, calendarCache,
                   fetchLog, recipientData, sendLog, batchSleeps,
                   adminReport, adminNotices, args, returned>>

\* sendEmailsBatched, one iteration of batch.forEach and, after the last
\* message of a batch, the pause
SendEmail ==
    /\ pc = "send"
    /\ Len(sendLog) < Len(emailQueue)
    /\ \E primaryScript \in ScriptsWithin(faultBudget) :
       \E fallbackScript \in ScriptsWithin(faultBudget - FaultCost(primaryScript)) :
          LET i == Len(sendLog) + 1
              emailData == emailQueue[i]
              primary == RetryOperation(primaryScript, DefaultMaxRetries)
              fallback == RetryOperation(fallbackScript, DefaultMaxRetries)
          IN  /\ primary.ok => ~IsFaulty(fallbackScript)
              /\ faultBudget' = faultBudget - FaultCost(primaryScript)
                                             - FaultCost(fallbackScript)
              /\ sendLog' = Append(sendLog, SendRecord(emailData.to, primary, fallback))
              /\ lastCalls' = SendCalls(primary, fallback)
              /\ tracker' = TrackSend(tracker, emailData.to, primary, fallback)
              /\ batchSleeps' = IF PauseAfter(i, Len(emailQueue))
                                THEN batchSleeps + 1 ELSE batchSleeps
    /\ UNCHANGED <<pc, today, rows, recipients, calendarGroups, calendarCache,
                   fetchLog, recipientData, emailQueue, adminReport>>
    /\ UNCHANGED <<adminNotices, args, returned>>

\* lines 979-992: the admin report, after the pipeline or after its catch
\* block
SendAdminSummary ==
    /\ \/ pc = "send" /\ Len(sendLog) = Len(emailQueue)
       \/ pc = "report"
    /\ lastCalls' = <<>>
    /\ adminReport' = AdminSubject(SummarySuccess(tracker))
    /\ pc' = "done"
    /\ UNCHANGED <<today, rows, recipients, calendarGroups, calendarCache,
                   fetchLog, recipientData, emailQueue, sendLog, batchSleeps,
                   tracker, faultBudget, adminNotices, args, returned>>

Next ==
    \/ LoadConfiguration
    \/ GroupActiveRecipients
    \/ FetchGroup
    \/ ReconcileRecipients
    \/ QueueMessages
    \/ SendEmail
    \/ SendAdminSummary

Spec == Init /\ [][Next]_vars

SpecFrequency == InitFrequency /\ [][Next]_vars

SpecConfig == InitConfig /\ [][Next]_vars

SpecStatus == InitStatus /\ [][Next]_vars

SpecKeywords == InitKeywords /\ [][Next]_vars

(***************************************************************************)
(* Properties.                                                             *)
(***************************************************************************)
Grouped == pc \notin {"load", "group"}

FetchDone == Grouped /\ Len(calendarCache) = Len(calendarGroups)

\* the catch block of the run was entered
Caught ==
    \E i \in 1..Len(tracker.errors) : tracker.errors[i].context[1] = "Main execution"

\* loadConfiguration returned null
ConfigFailed ==
    \E i \in 1..Len(tracker.errors) :
        tracker.errors[i].context[1] = "Configuration loading"

\* the queue was built
Queued == pc \in {"send", "done"} /\ ~Caught /\ ~ConfigFailed

Passing == SelectSeq(recipients, LAMBDA r : PassesFrequencyGate(r, today))

\* (calendarId, start, end) of a recipient
KeyOf(r) ==
    <<r.calendarId, RecipientDateRange(r, today).startDate,
      RecipientDateRange(r, today).endDate>>

PassingKeys == {KeyOf(Passing[i]) : i \in 1..Len(Passing)}

IssuedFor(op, key) ==
    Cardinality({i \in 1..Len(fetchLog) :
                    fetchLog[i].op = op /\ fetchLog[i].key = key})

GroupsPartitionByKey ==
    Grouped =>
        /\ \A g, h \in 1..Len(calendarGroups) :
              calendarGroups[g].key = calendarGroups[h].key => g = h
        /\ \A g \in 1..Len(calendarGroups) :
              /\ calendarGroups[g].recipients =
                    SelectSeq(Passing, LAMBDA r : KeyOf(r) = calendarGroups[g].key)
              /\ calendarGroups[g].recipients # <<>>
        /\ \A i \in 1..Len(Passing) :
              \E g \in 1..Len(calendarGroups) : calendarGroups[g].key = KeyOf(Passing[i])
        /\ \A i, j \in 1..Len(Passing) :
              LET a == OrDefault(Passing[i].preferences.dateRange, "today")
                  b == OrDefault(Passing[j].preferences.dateRange, "today")
                  together ==
                      \E g \in 1..Len(calendarGroups) :
                          {Passing[i], Passing[j]}
                              \subseteq Range(calendarGroups[g].recipients)
              IN  Passing[i].calendarId = Passing[j].calendarId =>
                      /\ (a = "today" /\ b = "tomorrow") => ~together
                      /\ (a = "today" /\ b = "weekdays") => together

\* one calendar, asked for today, for tomorrow and for weekdays: two groups
GroupsPartitionByKeyWitness ==
    /\ Grouped
    /\ Len(calendarGroups) = 2
    /\ Len(Passing) = 3
    /\ \A i \in 1..3 : Passing[i].calendarId = "cal1@gmail.com"
    /\ {OrDefault(Passing[i].preferences.dateRange, "today") : i \in 1..3}
          = {"today", "tomorrow", "weekdays"}

Delivered == {i \in 1..Len(sendLog) : sendLog[i].delivered # "none"}

Undelivered == {i \in 1..Len(sendLog) : sendLog[i].delivered = "none"}

\* the step just taken attempted a message
JustSent == pc = "send" /\ Len(sendLog) > 0 /\ Len(lastCalls) > 0

\* C3: for each queued message the primary channel is tried first, through
\* retryOperation; the fallback channel is tried, once, only when the
\* primary call threw; emailsSent counts the messages a channel delivered,
\* emailsFailed the messages on which both channels threw.
FallbackOnlyAfterPrimaryFailed ==
    /\ \A i \in 1..Len(sendLog) :
          /\ sendLog[i].to = emailQueue[i].to
          /\ sendLog[i].tried \in {<<"GmailApp">>, <<"GmailApp", "MailApp">>}
          /\ sendLog[i].delivered = "GmailApp" <=> sendLog[i].tried = <<"GmailApp">>
    /\ JustSent =>
          LET last == sendLog[Len(sendLog)]
          IN  /\ Len(lastCalls) = Len(last.tried)
              /\ Len(lastCalls) = 2 <=> ~lastCalls[1].ok
              /\ last.delivered = "GmailApp" <=> lastCalls[1].ok
              /\ last.delivered = "MailApp" <=>
                    (Len(lastCalls) = 2 /\ lastCalls[2].ok)
    /\ tracker.emailsSent = Cardinality(Delivered)
    /\ tracker.emailsFailed = Cardinality(Undelivered)

\* a message was delivered by the fallback channel, and on another run
\* position both channels threw: here both channels threw for a message
FallbackOnlyAfterPrimaryFailedWitness ==
    /\ JustSent
    /\ Len(lastCalls) = 2
    /\ ~lastCalls[2].ok
    /\ tracker.emailsFailed = 1

FailedGroups == {g \in 1..Len(calendarCache) : ~calendarCache[g].success}

PrimaryFailed == {i \in 1..Len(sendLog) : sendLog[i].tried # <<"GmailApp">>}

PermanentErrorNotRetried ==
    \A c \in 1..Len(lastCalls) :
        lastCalls[c].seen[1] = PermanentMessage =>
            /\ Len(lastCalls[c].seen) = 1
            /\ lastCalls[c].sleeps = 0
            /\ ~lastCalls[c].ok
            /\ lastCalls[c].error = PermanentMessage

PermanentErrorNotRetriedWitness ==
    \E c \in 1..Len(lastCalls) : lastCalls[c].seen = <<PermanentMessage>>

\* C6: a retryOperation call with the default arguments invokes the
\* operation at most 4 times; when every invocation throws a transient error
\* it makes 4 invocations and 3 sleeps and throws the last error; it sleeps
\* once before each retry and not after the last invocation; an invocation
\* that returns is the last one and the call returns.
AtMostFourAttempts ==
    \A c \in 1..Len(lastCalls) :
        LET call == lastCalls[c]
            n == Len(call.seen)
        IN  /\ n >= 1 /\ n <= 4
            /\ call.sleeps = n - 1
            /\ (\A k \in 1..n : call.seen[k] = TransientMessage) =>
                  (n = 4 /\ call.sleeps = 3 /\ ~call.ok /\ call.error = call.seen[4])
            /\ \A k \in 1..n : call.seen[k] = "ok" => (k = n /\ call.ok)
            /\ call.ok => call.seen[n] = "ok"

\* a call that ran out of retries, and one that returned on a retry
AtMostFourAttemptsWitness ==
    \E c \in 1..Len(lastCalls) :
        lastCalls[c].seen = <<TransientMessage, TransientMessage,
                              TransientMessage, TransientMessage>>

Reconciled == pc \in {"build", "send", "done"}

\* the calendar sources of an email: the places it holds in the groups
SourcesOf(email) ==
    {s \in (1..Len(calendarCache)) \X (1..MaxRows + 1) :
        /\ s[2] <= Len(calendarCache[s[1]].recipients)
        /\ calendarCache[s[1]].recipients[s[2]].email = email}

GoodSourcesOf(email) == {s \in SourcesOf(email) : calendarCache[s[1]].success}

PassingEmails == {Passing[i].email : i \in 1..Len(Passing)}

EntriesOf(email) == {i \in 1..Len(recipientData) : recipientData[i].email = email}

MessagesTo(email) == {i \in 1..Len(emailQueue) : emailQueue[i].to = email}

SameEvents(a, b) == Len(a) = Len(b) /\ Range(a) = Range(b)

\* C7: a recipient with two calendar sources, the group of one failed and
\* the group of the other fetched, is reconciled with hasErrors = TRUE and
\* one calendar source, and is queued one message, a summary and not the
\* error notice, whose events are the events of the fetched source.
PartialFailureGetsSummary ==
    \A email \in PassingEmails :
        (/\ Reconciled
         /\ Cardinality(SourcesOf(email)) = 2
         /\ Cardinality(GoodSourcesOf(email)) = 1) =>
            LET good == CHOOSE s \in GoodSourcesOf(email) : TRUE
            IN  /\ Cardinality(EntriesOf(email)) = 1
                /\ \A i \in EntriesOf(email) :
                      /\ recipientData[i].hasErrors
                      /\ Len(recipientData[i].calendars) = 1
                      /\ Len(recipientData[i].errors) = 1
                /\ Queued =>
                      /\ Cardinality(MessagesTo(email)) = 1
                      /\ \A m \in MessagesTo(email) :
                            /\ emailQueue[m].kind = "summary"
                            /\ emailQueue[m].subject # ErrorSubject
                            /\ SameEvents(emailQueue[m].events,
                                          calendarCache[good[1]].events)

\* a queued summary for a recipient one of whose two sources failed; the
\* fetched source holds events
PartialFailureGetsSummaryWitness ==
    /\ Queued
    /\ \E email \in PassingEmails :
          /\ Cardinality(SourcesOf(email)) = 2
          /\ Cardinality(GoodSourcesOf(email)) = 1
          /\ \E s \in GoodSourcesOf(email) : calendarCache[s[1]].events # <<>>

\* the failure reasons of an email, in the order of its sources
ReasonsOf(email) ==
    FlattenSeq([g \in 1..Len(calendarCache) |->
        LET mine == SelectSeq(calendarCache[g].recipients,
                              LAMBDA r : r.email = email)
        IN  [k \in 1..Len(mine) |-> calendarCache[g].error]])

\* C8: a recipient all of whose groups failed has no calendar source and
\* is queued one message, the error notice, which lists the failure reason
\* of each of its sources; every other recipient that passed the gate is
\* queued a message as well.
TotalFailureGetsErrorNotice ==
    /\ \A email \in PassingEmails :
          (Reconciled /\ GoodSourcesOf(email) = {}) =>
              /\ Cardinality(EntriesOf(email)) = 1
              /\ \A i \in EntriesOf(email) :
                    /\ recipientData[i].calendars = <<>>
                    /\ recipientData[i].hasErrors
              /\ Queued =>
                    /\ Cardinality(MessagesTo(email)) = 1
                    /\ \A m \in MessagesTo(email) :
                          /\ emailQueue[m].kind = "error"
                          /\ emailQueue[m].subject = ErrorSubject
                          /\ emailQueue[m].events = <<>>
                          /\ emailQueue[m].errors = ReasonsOf(email)
                          /\ emailQueue[m].errors # <<>>
    /\ Queued => \A email \in PassingEmails : MessagesTo(email) # {}

\* the queue holds an error notice and, for another recipient, a summary
TotalFailureGetsErrorNoticeWitness ==
    /\ Queued
    /\ \E m, n \in 1..Len(emailQueue) :
          emailQueue[m].kind = "error" /\ emailQueue[n].kind = "summary"

\* the elements of a list in the order of their first appearance
RECURSIVE FirstUseFrom(_, _)
FirstUseFrom(kept, list) ==
    IF list = <<>> THEN kept
    ELSE FirstUseFrom(IF Head(list) \in Range(kept) THEN kept
                      ELSE Append(kept, Head(list)),
                      Tail(list))

FirstUse(list) == FirstUseFrom(<<>>, list)

QueueAddresses == [i \in 1..Len(emailQueue) |-> emailQueue[i].to]

\* the original statement of C9: the messages follow the first appearance
\* of each email in the input recipient list
QueueInInputOrder ==
    Queued => QueueAddresses = FirstUse([i \in 1..Len(Passing) |-> Passing[i].email])

\* C9, amended: the delivery queue holds one message per distinct email of
\* the recipients that passed the gate, in the order in which the emails
\* first appear when the groups are walked in the order of their creation,
\* each group's recipients in input order.
QueueInGroupOrder ==
    Queued =>
        /\ QueueAddresses =
              FirstUse(FlattenSeq([g \in 1..Len(calendarGroups) |->
                  [j \in 1..Len(calendarGroups[g].recipients) |->
                      calendarGroups[g].recipients[j].email]]))
        /\ Range(QueueAddresses) = PassingEmails
        /\ Cardinality(PassingEmails) = Len(emailQueue)

\* a queue whose order differs from the order of the input list
QueueInGroupOrderWitness ==
    /\ Queued
    /\ Len(emailQueue) = 3
    /\ QueueAddresses # FirstUse([i \in 1..Len(Passing) |-> Passing[i].email])

\* a row of C10: a valid email, a Status other than disabled, and a
\* Calendar ID cell of one or more valid ids
RowIsWellFormed(row) ==
    /\ EmailIsValid(row.email)
    /\ ToLowerCase(Trim(row.status)) # "disabled"
    /\ Len(row.calendarId) >= 1
    /\ \A k \in 1..Len(row.calendarId) : row.calendarId[k] \in CalendarAddresses

\* the N records C10 promises for a row of N calendar ids
PromisedRecords(row) ==
    [k \in 1..Len(row.calendarId) |->
        [email |-> row.email,
         calendarId |-> row.calendarId[k],
         preferences |-> ParsePreferences(row),
         isMultiCalendar |-> Len(row.calendarId) > 1,
         calendarIndex |-> k - 1,
         totalCalendars |-> Len(row.calendarId)]]

\* C10: loadConfiguration turns every row with a valid email, a Status
\* other than disabled and N >= 1 comma-separated valid calendar ids into N
\* records that share the email and the preferences, with totalCalendars = N,
\* isMultiCalendar = (N > 1) and calendarIndex the position of the id.
EveryCalendarIdYieldsRecord ==
    (/\ pc = "group"
     /\ Len(rows) >= 1
     /\ \A i \in 1..Len(rows) : RowIsWellFormed(rows[i])) =>
        recipients = FlattenSeq([i \in 1..Len(rows) |-> PromisedRecords(rows[i])])

\* a row of C11: a valid email, a Status other than disabled, and a Calendar
\* ID cell of several pieces of which one is a valid id and one is not
RowHasBadPiece(row) ==
    /\ EmailIsValid(row.email)
    /\ ToLowerCase(Trim(row.status)) # "disabled"
    /\ Len(row.calendarId) >= 2
    /\ \E k \in 1..Len(row.calendarId) : row.calendarId[k] \in CalendarAddresses
    /\ \E k \in 1..Len(row.calendarId) : Trim(row.calendarId[k]) \notin AddressShaped

\* C11: of a row with a valid email whose Calendar ID cell holds several
\* comma-separated pieces, a piece that fails validation is dropped and every
\* valid sibling piece still yields its record.
ValidSiblingsYieldRecords ==
    pc = "group" =>
        \A i \in 1..Len(rows) :
            RowHasBadPiece(rows[i]) =>
                \A k \in 1..Len(rows[i].calendarId) :
                    rows[i].calendarId[k] \in CalendarAddresses =>
                        \E j \in 1..Len(recipients) :
                            /\ recipients[j].email = rows[i].email
                            /\ recipients[j].calendarId = rows[i].calendarId[k]

\* the Status cell equals 'disabled' when case is ignored
StatusIsDisabled(row) == row.status \in {"disabled", "Disabled", "DISABLED"}

ActiveRows == SelectSeq(rows, LAMBDA row : ~StatusIsDisabled(row))

\* the sheet was read and its rows were expanded
Loaded == pc # "load" /\ ~Caught /\ ~ConfigFailed

LookupsOf(calendarId) ==
    Cardinality({i \in 1..Len(fetchLog) :
                    fetchLog[i].op = "lookup" /\ fetchLog[i].key[1] = calendarId})

\* C12: a row whose Status is 'disabled' in any letter case yields no
\* record, no message and no fetch: the records are those of the other rows,
\* the delivery queue holds one message for each email of the other rows and
\* none else, and a calendar is looked up once when one of the other rows
\* names it and never otherwise (all rows with dateRange today).
DisabledRowIsSilent ==
    /\ Loaded =>
          recipients = FlattenSeq([i \in 1..Len(ActiveRows) |->
                                      PromisedRecords(ActiveRows[i])])
    /\ Queued =>
          /\ Range(QueueAddresses) = {ActiveRows[i].email : i \in 1..Len(ActiveRows)}
          /\ Len(emailQueue) = Cardinality(Range(QueueAddresses))
    /\ Loaded =>
          \A c \in CalendarAddresses :
              /\ LookupsOf(c) <= 1
              /\ (\A i \in 1..Len(ActiveRows) : ActiveRows[i].calendarId[1] # c)
                    => LookupsOf(c) = 0
              /\ (FetchDone /\ \E i \in 1..Len(ActiveRows) :
                                  ActiveRows[i].calendarId[1] = c)
                    => LookupsOf(c) = 1

\* an active and a disabled row on the same calendar, for two emails; the
\* queue is sent and holds the message of the active one only
DisabledRowIsSilentWitness ==
    /\ pc = "done"
    /\ Queued
    /\ Len(emailQueue) = 1
    /\ Len(sendLog) = 1
    /\ \E i, j \in 1..Len(rows) :
          /\ StatusIsDisabled(rows[i])
          /\ ~StatusIsDisabled(rows[j])
          /\ rows[i].calendarId = rows[j].calendarId
          /\ rows[i].email # rows[j].email
          /\ emailQueue[1].to = rows[j].email
          /\ LookupsOf(rows[j].calendarId[1]) = 1

\* the frequency of the record never sends
NeverSends(r) == r.preferences.frequency \in {"never", "disabled"}

Senders == SelectSeq(recipients, LAMBDA r : ~NeverSends(r))

GroupedRecipients ==
    FlattenSeq([g \in 1..Len(calendarGroups) |-> calendarGroups[g].recipients])

\* C13: the frequency gate acts on each record before grouping: a record
\* whose frequency never sends is in no group and every other record is in
\* one group; an email all of whose records never send gets no message; a
\* calendar named only by such records is never looked up; a record that
\* passes is grouped, its calendar is looked up and its message is handed
\* to the sender, whoever shares its calendar.
GateBeforeGrouping ==
    /\ Grouped /\ ~Caught =>
          /\ \A i \in 1..Len(GroupedRecipients) : ~NeverSends(GroupedRecipients[i])
          /\ Len(GroupedRecipients) = Len(Senders)
          /\ \A i \in 1..Len(Senders) :
                \E g \in 1..Len(calendarGroups) :
                    /\ calendarGroups[g].calendarId = Senders[i].calendarId
                    /\ Senders[i] \in Range(calendarGroups[g].recipients)
    /\ \A i \in 1..Len(fetchLog) :
          \E j \in 1..Len(Senders) : Senders[j].calendarId = fetchLog[i].key[1]
    /\ FetchDone /\ ~Caught =>
          \A j \in 1..Len(Senders) : LookupsOf(Senders[j].calendarId) >= 1
    /\ Queued =>
          Range(QueueAddresses) = {Senders[i].email : i \in 1..Len(Senders)}
    /\ (Queued /\ pc = "done") =>
          {sendLog[i].to : i \in 1..Len(sendLog)}
              = {Senders[i].email : i \in 1..Len(Senders)}

\* a record that never sends and a record that passes share a calendar; the
\* run is over, the passing one was delivered to and the other got nothing
GateBeforeGroupingWitness ==
    /\ pc = "done"
    /\ Queued
    /\ \E i, j \in 1..Len(recipients) :
          /\ NeverSends(recipients[i])
          /\ ~NeverSends(recipients[j])
          /\ recipients[i].calendarId = recipients[j].calendarId
          /\ recipients[i].email # recipients[j].email
          /\ \A m \in 1..Len(emailQueue) : emailQueue[m].to # recipients[i].email
          /\ \E m \in 1..Len(sendLog) :
                /\ sendLog[m].to = recipients[j].email
                /\ sendLog[m].delivered = "GmailApp"
    /\ \E i \in 1..Len(recipients) :
          /\ NeverSends(recipients[i])
          /\ LookupsOf(recipients[i].calendarId) = 0

\* C14: when configuration loading fails (the sheet cannot be opened, a
\* required column is missing, or there are no data rows) no recipient is
\* processed and, once the run is over, the administrator has received the
\* end-of-run report, classified FAILED.
FailedLoadIsReported ==
    ConfigFailed =>
        /\ recipients = <<>>
        /\ calendarGroups = <<>>
        /\ emailQueue = <<>>
        /\ sendLog = <<>>
        /\ pc = "done" => adminReport = "FAILED"

\* the run ends and the report goes out (lines 979-992 follow every path
\* that does not return)
FairSpec == InitStatus /\ [][Next]_vars /\ WF_vars(Next)

\* the catch block was entered and nothing ran after it but the report
InCatch == pc = "report"

\* C15: a throw inside the pipeline (loadConfiguration without a spreadsheet
\* id, a fault while the queue is built) is caught: it is appended to the
\* tracker's errors with the context 'Main execution', no message is sent
\* after it, and the admin report follows, once, classified FAILED.
ThrowIsCaughtAndReported ==
    /\ [](InCatch =>
            /\ Len(tracker.errors) >= 1
            /\ tracker.errors[Len(tracker.errors)].context[1] = "Main execution"
            /\ Cardinality({i \in 1..Len(tracker.errors) :
                   tracker.errors[i].context[1] = "Main execution"}) = 1
            /\ adminReport = ""
            /\ sendLog = <<>>)
    /\ [](Caught => InCatch \/ (pc = "done" /\ adminReport = "FAILED"))
    /\ [][InCatch => (pc' = "done" /\ adminReport' = "FAILED"
                        /\ tracker' = tracker /\ sendLog' = sendLog)]_vars
    /\ [][adminReport # "" => adminReport' = adminReport]_vars
    /\ (InCatch ~> (pc = "done" /\ adminReport = "FAILED"))

\* a fault while the queue was built, after a group was fetched, was caught
\* and the FAILED report went out
ThrowIsCaughtAndReportedWitness ==
    /\ pc = "done"
    /\ Caught
    /\ adminReport = "FAILED"
    /\ recipientData # <<>>
    /\ emailQueue = <<>>

(***************************************************************************)
(* ExecutionTracker used directly: any sequence of its operations, then    *)
(* getSummary and the subject of the report.                               *)
(***************************************************************************)
\* the state outside a run of sendDailyEventSummary
InitDirect ==
    /\ rows = <<>>
    /\ recipients = <<>>
    /\ calendarGroups = <<>>
    /\ calendarCache = <<>>
    /\ fetchLog = <<>>
    /\ lastCalls = <<>>
    /\ recipientData = <<>>
    /\ emailQueue = <<>>
    /\ sendLog = <<>>
    /\ batchSleeps = 0
    /\ adminReport = ""
    /\ adminNotices = <<>>
    /\ faultBudget = 0
    /\ returned = <<>>

InitTracker ==
    /\ InitDirect
    /\ today \in Todays
    /\ pc = "tracker"
    /\ tracker = NewTracker
    /\ args = <<>>

\* one operation on the tracker; args lists the operations applied so far
TrackerOperation(name, after) ==
    /\ pc = "tracker"
    /\ Len(args) < MaxOps
    /\ args' = Append(args, name)
    /\ tracker' = after
    /\ returned' = <<>>
    /\ UNCHANGED <<pc, today, rows, recipients, calendarGroups, calendarCache,
                   fetchLog, lastCalls, recipientData, emailQueue, sendLog,
                   batchSleeps, adminReport, faultBudget, adminNotices>>

TrackerIncrementCalendars ==
    TrackerOperation("incrementCalendars", IncrementCalendars(tracker))

TrackerAddEvents ==
    \E count \in 0..2 : TrackerOperation("addEvents", AddEvents(tracker, count))

TrackerIncrementEmailsSent ==
    TrackerOperation("incrementEmailsSent", IncrementEmailsSent(tracker))

TrackerIncrementEmailsFailed ==
    TrackerOperation("incrementEmailsFailed", IncrementEmailsFailed(tracker))

TrackerIncrementRetries ==
    TrackerOperation("incrementRetries", IncrementRetries(tracker))

TrackerAddError ==
    \E message \in ErrorMessages :
        TrackerOperation("addError", AddError(tracker, message, <<"", "">>))

\* tracker.getSummary() and the subject built from it (lines 980-986)
TrackerGetSummary ==
    /\ pc = "tracker"
    /\ returned = <<>>
    /\ returned' = <<[success |-> SummarySuccess(tracker),
                      subject |-> AdminSubject(SummarySuccess(tracker))]>>
    /\ UNCHANGED <<pc, today, rows, recipients, calendarGroups, calendarCache,
                   fetchLog, lastCalls, recipientData, emailQueue, sendLog,
                   batchSleeps, tracker, adminReport, faultBudget, adminNotices,
                   args>>

NextTracker ==
    \/ TrackerIncrementCalendars
    \/ TrackerAddEvents
    \/ TrackerIncrementEmailsSent
    \/ TrackerIncrementEmailsFailed
    \/ TrackerIncrementRetries
    \/ TrackerAddError
    \/ TrackerGetSummary

SpecTracker == InitTracker /\ [][NextTracker]_vars

\* C16: after any sequence of tracker operations getSummary().success is
\* true exactly when the errors list is empty and emailsFailed is 0, and the
\* subject of the admin report says SUCCESS in that case and FAILED otherwise.
SuccessIffNoErrorNoFailedSend ==
    (pc = "tracker" /\ returned # <<>>) =>
        LET clean == tracker.errors = <<>> /\ tracker.emailsFailed = 0
        IN  /\ returned[1].success = clean
            /\ returned[1].subject = (IF clean THEN "SUCCESS" ELSE "FAILED")

\* a summary taken of a tracker that counts a failed send and holds no error
SuccessIffNoErrorNoFailedSendWitness ==
    /\ pc = "tracker"
    /\ returned # <<>>
    /\ tracker.errors = <<>>
    /\ tracker.emailsFailed > 0
    /\ returned[1].subject = "FAILED"

(***************************************************************************)
(* filterEventsByKeywords called directly                                  *)
(***************************************************************************)
\* events of the direct calls: a title, a description and a location
FilterEvents ==
    {[title |-> t, description |-> d, location |-> l] :
        t \in {<<"A">>, <<"a", "b">>, <<"c">>},
        d \in {<<>>, <<"B">>},
        l \in {<<>>, <<"a">>}}

\* lower-cased keywords: includes, one that spans two fields, excludes and
\* the bare '-'
FilterKeywords ==
    {<<"a">>, <<"b">>, <<"a", " ", "b">>, <<"-", "a">>, <<"-", "c">>, <<"-">>}

InitFilter ==
    /\ InitDirect
    /\ today \in Todays
    /\ pc = "filter"
    /\ tracker = NewTracker
    /\ args \in [events : SeqsUpTo(FilterEvents, MaxEvents),
                 filterKeywords :
                    {NoKeywords} \cup
                    {KeywordList(list) :
                        list \in SeqsUpTo(FilterKeywords, MaxKeywords)}]

CallFilterEventsByKeywords ==
    /\ pc = "filter"
    /\ returned = <<>>
    /\ returned' = <<FilterEventsByKeywords(args.events, args.filterKeywords)>>
    /\ UNCHANGED <<pc, today, rows, recipients, calendarGroups, calendarCache,
                   fetchLog, lastCalls, recipientData, emailQueue, sendLog,
                   batchSleeps, tracker, adminReport, faultBudget, adminNotices,
                   args>>

NextFilter == CallFilterEventsByKeywords

SpecFilter == InitFilter /\ [][NextFilter]_vars

FilterCalled == pc = "filter" /\ returned # <<>>

\* the event passes the keywords as C17 words it
Retained(event, keywords) ==
    \A k \in Range(keywords) :
        IF StartsWithDash(k)
        THEN ~Includes(EventText(event), Tail(k))
        ELSE Includes(EventText(event), k)

DateRangePreferences ==
    {"today", "tomorrow", "next 3 days", "next3days", "this week", "thisweek",
     "next week", "nextweek", "weekdays only", "weekdays", "someday"}

FrequencyPreferences ==
    {"daily", "weekdays only", "weekdays", "mondays only", "monday",
     "wednesdays only", "wednesday", "fridays only", "friday",
     "weekends only", "weekends", "never", "disabled", "fortnightly"}

InitDates ==
    /\ InitDirect
    /\ today \in 0..MaxDay
    /\ pc = "dates"
    /\ tracker = NewTracker
    /\ args = <<>>

CallCalculateDateRange ==
    /\ pc = "dates"
    /\ args = <<>>
    /\ \E dateRange \in DateRangePreferences :
          /\ args' = <<"calculateDateRange", dateRange>>
          /\ returned' = <<CalculateDateRange(dateRange, today)>>
    /\ UNCHANGED <<pc, today, rows, recipients, calendarGroups, calendarCache,
                   fetchLog, lastCalls, recipientData, emailQueue, sendLog,
                   batchSleeps, tracker, adminReport, faultBudget, adminNotices>>

CallShouldSendEmail ==
    /\ pc = "dates"
    /\ args = <<>>
    /\ \E frequency \in FrequencyPreferences :
          /\ args' = <<"shouldSendEmail", frequency>>
          /\ returned' = <<ShouldSendEmail(frequency, today)>>
    /\ UNCHANGED <<pc, today, rows, recipients, calendarGroups, calendarCache,
                   fetchLog, lastCalls, recipientData, emailQueue, sendLog,
                   batchSleeps, tracker, adminReport, faultBudget, adminNotices>>

NextDates == CallCalculateDateRange \/ CallShouldSendEmail

SpecDates == InitDates /\ [][NextDates]_vars

Called(name) == pc = "dates" /\ args # <<>> /\ args[1] = name

\* day 0 is a Monday, so the Sundays are the days 6, 13, ... and -1
SundayOnOrBefore(d) == CHOOSE s \in (d - 6)..d : s % 7 = 6

\* C18: for 'this week' / 'thisweek' and every date taken as today,
\* calculateDateRange returns start = the Sunday on or before today and
\* end = start plus 7 days, also when that Sunday lies in the previous
\* month.
ThisWeekIsSevenDays ==
    (Called("calculateDateRange") /\ args[2] \in {"this week", "thisweek"}) =>
        /\ returned[1].startDate = SundayOnOrBefore(today)
        /\ returned[1].endDate = returned[1].startDate + 7
        /\ returned[1].description = "this week"

\* the interval from `from` days after today to `to` days after today
Interval(from, to, description) ==
    [startDate |-> today + from, endDate |-> today + to,
     description |-> description]

\* days from today to the Sunday after today
ToNextSunday == SundayOnOrBefore(today) + 7 - today

\* C19: for every date taken as today calculateDateRange maps 'today' and
\* an unrecognized string to [today, today+1d) 'today'; 'tomorrow' to
\* [today+1d, today+2d); 'next 3 days'/'next3days' to [today, today+3d) 'the
\* next 3 days'; 'next week'/'nextweek' to the 7 days from the Sunday after
\* today; 'weekdays'/'weekdays only' to [today, today+1d) 'today (weekdays
\* only)'.
DateRangesResolve ==
    Called("calculateDateRange") =>
        LET dateRange == args[2]
            range == returned[1]
        IN  /\ dateRange \in {"today", "someday"} => range = Interval(0, 1, "today")
            /\ dateRange = "tomorrow" => range = Interval(1, 2, "tomorrow")
            /\ dateRange \in {"next 3 days", "next3days"} =>
                  range = Interval(0, 3, "the next 3 days")
            /\ dateRange \in {"next week", "nextweek"} =>
                  range = Interval(ToNextSunday, ToNextSunday + 7, "next week")
            /\ dateRange \in {"weekdays", "weekdays only"} =>
                  range = Interval(0, 1, "today (weekdays only)")

\* 'next week' asked near the end of a month: the week asked for lies in the
\* month after today's
DateRangesResolveWitness ==
    /\ Called("calculateDateRange")
    /\ args[2] = "next week"
    /\ MonthStart(returned[1].startDate) # MonthStart(today)
    /\ MonthStart(returned[1].endDate) # MonthStart(today)
    /\ returned[1].endDate = returned[1].startDate + 7

\* the day of the week of a day, day 0 being a Monday
WeekdayName(d) ==
    <<"Monday", "Tuesday", "Wednesday", "Thursday", "Friday", "Saturday",
      "Sunday">>[(d % 7) + 1]

\* C20: on each day of the week shouldSendEmail returns true for 'daily' and
\* an unrecognized string; for 'weekdays'/'weekdays only' exactly Monday to
\* Friday; for 'monday', 'wednesday', 'friday' and their '...s only' forms
\* exactly on that day; for 'weekends'/'weekends only' exactly Saturday and
\* Sunday; false for 'never'/'disabled'.
FrequencyGateByWeekday ==
    Called("shouldSendEmail") =>
        LET frequency == args[2]
            sends == returned[1]
            name == WeekdayName(today)
        IN  /\ frequency \in {"daily", "fortnightly"} => sends
            /\ frequency \in {"weekdays", "weekdays only"} =>
                  (sends <=> name \notin {"Saturday", "Sunday"})
            /\ frequency \in {"monday", "mondays only"} =>
                  (sends <=> name = "Monday")
            /\ frequency \in {"wednesday", "wednesdays only"} =>
                  (sends <=> name = "Wednesday")
            /\ frequency \in {"friday", "fridays only"} =>
                  (sends <=> name = "Friday")
            /\ frequency \in {"weekends", "weekends only"} =>
                  (sends <=> name \in {"Saturday", "Sunday"})
            /\ frequency \in {"never", "disabled"} => ~sends

\* 'weekends' asked on a Sunday
FrequencyGateByWeekdayWitness ==
    /\ Called("shouldSendEmail")
    /\ args[2] = "weekends"
    /\ WeekdayName(today) = "Sunday"
    /\ returned[1]

(***************************************************************************)
(* Properties of the fetch results and of reconciliation.                  *)
(***************************************************************************)
FetchedGroups == {g \in 1..Len(calendarCache) : calendarCache[g].success}

AccessErrors(calendarId) ==
    {i \in 1..Len(tracker.errors) :
        tracker.errors[i].context = <<"Accessing calendar", calendarId>>}

\* C22: calendarsProcessed is the number of groups fetched with success and
\* eventsFound the number of their events; a group whose lookup or query
\* failed has success = FALSE, no events, an error message, its full
\* recipients list and one error 'Accessing calendar <id>' in the tracker;
\* the groups after a failed group are fetched all the same.
FetchMetricsMatchGroups ==
    /\ tracker.calendarsProcessed = Cardinality(FetchedGroups)
    /\ tracker.eventsFound =
          Len(FlattenSeq([g \in 1..Len(calendarCache) |-> calendarCache[g].events]))
    /\ \A g \in 1..Len(calendarCache) :
          /\ calendarCache[g].key = calendarGroups[g].key
          /\ calendarCache[g].recipients = calendarGroups[g].recipients
          /\ ~calendarCache[g].success =>
                /\ calendarCache[g].events = <<>>
                /\ calendarCache[g].error \in ErrorMessages
                /\ calendarCache[g].calendar = Undefined
    /\ \A c \in CalendarAddresses :
          Cardinality(AccessErrors(c)) =
              Cardinality({g \in FailedGroups : calendarGroups[g].calendarId = c})
    /\ (pc \in {"build", "send", "done"} /\ ~Caught /\ ~ConfigFailed) =>
          Len(calendarCache) = Len(calendarGroups)

\* a failed group was followed by a group fetched with success that holds
\* events
FetchMetricsMatchGroupsWitness ==
    /\ FetchDone
    /\ \E g, h \in 1..Len(calendarCache) :
          /\ g < h
          /\ ~calendarCache[g].success
          /\ calendarCache[h].success
          /\ calendarCache[h].events # <<>>
          /\ Len(calendarCache[g].recipients) = 2

\* the retries (re-invocations after a transient failure) of a list of
\* retryOperation calls: one per sleep
RECURSIVE RetriesOf(_)
RetriesOf(calls) ==
    IF calls = <<>> THEN 0 ELSE Head(calls).sleeps + RetriesOf(Tail(calls))

\* C23: the metrics track the retries: every step of a run adds to
\* retriesPerformed the retries retryOperation performed in that step, for a
\* calendar fetch or an email send, so that at the end of the run
\* retriesPerformed is their total.
RetriesAreCounted ==
    [][tracker'.retriesPerformed =
           tracker.retriesPerformed + RetriesOf(lastCalls')]_vars

\* the calendar ids of the failed groups that hold a record of the email
FailedCalendarsOf(email) ==
    {calendarGroups[g].calendarId : g \in
        {h \in FailedGroups :
            \E j \in 1..Len(calendarCache[h].recipients) :
                calendarCache[h].recipients[j].email = email}}

\* C24: when a group failed, reconciliation sets hasErrors for each of its
\* recipients, adds nothing to the recipient's calendar sources and appends
\* an errors entry that names the failing calendar by its calendarId, with
\* the failure message.
ErrorEntryNamesCalendar ==
    (Reconciled /\ ~Caught) =>
        \A i \in 1..Len(recipientData) :
            /\ FailedCalendarsOf(recipientData[i].email) # {}
                  => recipientData[i].hasErrors
            /\ \A k \in 1..Len(recipientData[i].errors) :
                  /\ recipientData[i].errors[k].calendarId
                        \in FailedCalendarsOf(recipientData[i].email)
                  /\ recipientData[i].errors[k].error \in ErrorMessages

\* C26: the calendar object is looked up once per calendar id in a run, also
\* when recipients ask for different date ranges on the same calendar.
LookupOncePerCalendar ==
    \A c \in CalendarAddresses : LookupsOf(c) <= 1

\* C27: with several include keywords filterEventsByKeywords returns the
\* events whose text holds at least one of them.
AnyIncludeKeywordRetains ==
    (/\ FilterCalled
     /\ Len(args.filterKeywords.list) >= 2
     /\ \A k \in Range(args.filterKeywords.list) : ~StartsWithDash(k)) =>
        returned[1] = SelectSeq(args.events,
            LAMBDA event : \E k \in Range(args.filterKeywords.list) :
                               Includes(EventText(event), k))

\* the descriptions the records of an email resolve to
OwnDescriptions(email) ==
    {RecipientDateRange(Passing[i], today).description :
        i \in {j \in 1..Len(Passing) : Passing[j].email = email}}

\* C29: the subject and the description of a normal message are those of the
\* recipient's own dateRange preference, also when the recipient shares a
\* group with a recipient whose preference resolves to the same interval
\* under another description (the recipient's records agreeing on the
\* preference).
MessageUsesOwnDateRange ==
    Queued =>
        \A m \in 1..Len(emailQueue) :
            \A d \in OwnDescriptions(emailQueue[m].to) :
                (emailQueue[m].kind = "summary"
                 /\ OwnDescriptions(emailQueue[m].to) = {d}) =>
                    /\ emailQueue[m].description = d
                    /\ emailQueue[m].subject = SummarySubject(d)

\* C30: in a normal message each event returned for a group is included at
\* most once, also when the same email and calendar occur in several rows.
EventsIncludedOnce ==
    Queued =>
        \A m \in 1..Len(emailQueue) :
            Cardinality(Range(emailQueue[m].events)) = Len(emailQueue[m].events)

(***************************************************************************)
(* sendEmailsBatched called directly with a queue and a fresh tracker.     *)
(***************************************************************************)
\* a queue of n messages
DirectQueue(n) ==
    [i \in 1..n |-> [to |-> RecipientOrder[((i - 1) % Len(RecipientOrder)) + 1],
                     subject |-> "Test"]]

InitSend ==
    /\ today \in Todays
    /\ rows = <<>>
    /\ recipients = <<>>
    /\ calendarGroups = <<>>
    /\ calendarCache = <<>>
    /\ fetchLog = <<>>
    /\ lastCalls = <<>>
    /\ recipientData = <<>>
    /\ sendLog = <<>>
    /\ batchSleeps = 0
    /\ adminReport = ""
    /\ adminNotices = <<>>
    /\ args = <<>>
    /\ returned = <<>>
    /\ pc = "send"
    /\ tracker = NewTracker
    /\ faultBudget = MaxSendFaults
    /\ emailQueue \in {DirectQueue(n) : n \in 1..MaxQueue}

NextSend == SendEmail

SpecSend == InitSend /\ [][NextSend]_vars

\* ceil(n / BATCH_SIZE)
BatchesOf(n) == (n + BATCH_SIZE - 1) \div BATCH_SIZE

\* C21: the messages are attempted in queue order, each one completely
\* (primary and, if it failed, fallback) before the next, in batches of 10;
\* the pause is taken after each full batch that another batch follows, so
\* ceil(n/10) - 1 times for a queue of n, never inside a batch and never
\* after the last batch.
BatchesOfTenWithPauses ==
    /\ Len(sendLog) <= Len(emailQueue)
    /\ \A i \in 1..Len(sendLog) :
          /\ sendLog[i].to = emailQueue[i].to
          /\ sendLog[i].tried = (IF sendLog[i].delivered = "GmailApp"
                                 THEN <<"GmailApp">>
                                 ELSE <<"GmailApp", "MailApp">>)
    /\ batchSleeps = (IF Len(sendLog) = Len(emailQueue)
                      THEN BatchesOf(Len(emailQueue)) - 1
                      ELSE Len(sendLog) \div BATCH_SIZE)

\* a queue of two full batches is sent: one pause was taken
BatchesOfTenWithPausesWitness ==
    /\ Len(emailQueue) = 2 * BATCH_SIZE
    /\ Len(sendLog) = Len(emailQueue)
    /\ batchSleeps = 1
    /\ \E i \in 1..Len(sendLog) : sendLog[i].delivered = "MailApp"

\* C28: after sendEmailsBatched with a fresh tracker every message attempted
\* is counted once, as sent or as failed: emailsSent + emailsFailed is the
\* number of messages attempted and, at the end, the length of the queue;
\* emailsFailed counts the messages no channel delivered; a failed message
\* is followed by the attempts of the remaining ones.
EveryMessageCountedOnce ==
    /\ [](/\ tracker.emailsSent + tracker.emailsFailed = Len(sendLog)
          /\ tracker.emailsFailed = Cardinality(Undelivered)
          /\ tracker.emailsSent = Cardinality(Delivered))
    /\ [][Len(sendLog') = Len(sendLog) + 1
            /\ Len(sendLog') <= Len(emailQueue)]_vars

\* the whole queue was attempted; the first message, which no channel
\* delivered, was followed by messages that were delivered
EveryMessageCountedOnceWitness ==
    /\ Len(sendLog) = Len(emailQueue)
    /\ Len(emailQueue) >= 3
    /\ tracker.emailsFailed = 1
    /\ sendLog[1].delivered = "none"
    /\ tracker.emailsSent = Len(emailQueue) - 1
    /\ Len(lastCalls) = 1
    /\ lastCalls[1].ok

(***************************************************************************)
(* The events of a normal message                                          *)
(***************************************************************************)
\* what the calendar service holds for the group at g of the cache
ServiceEvents(g) ==
    GetEvents(calendarGroups[g].calendarId, calendarGroups[g].dateRange.startDate,
              calendarGroups[g].dateRange.endDate, today)

KnownEvents == UNION {Range(CalendarEvents(c, today)) : c \in CalendarAddresses}

Occurrences(events, event) ==
    Cardinality({i \in 1..Len(events) : events[i] = event})

\* how often the successful sources of an email hold the event
SourceCount(email, event) ==
    Cardinality({s \in GoodSourcesOf(email) : event \in Range(ServiceEvents(s[1]))})

\* the filterKeywords of the records of an email
KeywordsOfRecords(email) ==
    {Passing[i].preferences.filterKeywords :
        i \in {j \in 1..Len(Passing) : Passing[j].email = email}}

PassesKeywords(event, filterKeywords) ==
    filterKeywords.absent \/ Retained(event, filterKeywords.list)

\* C25: the events of a recipient's normal message are exactly the events
\* of the recipient's successful calendar sources that pass the
\* filterKeywords of a record of that recipient (all of them when the key is
\* absent), in non-decreasing start-time order; no event of a failed source
\* is among them.
MessageHoldsFilteredEvents ==
    Queued =>
        \A m \in 1..Len(emailQueue) :
            emailQueue[m].kind = "summary" =>
                LET email == emailQueue[m].to
                    events == emailQueue[m].events
                IN  /\ \E filterKeywords \in KeywordsOfRecords(email) :
                          \A event \in KnownEvents :
                              Occurrences(events, event) =
                                  IF PassesKeywords(event, filterKeywords)
                                  THEN SourceCount(email, event) ELSE 0
                    /\ \A i, j \in 1..Len(events) :
                          i < j => events[i].startTime <= events[j].startTime
                    /\ \A i \in 1..Len(events) :
                          \E s \in GoodSourcesOf(email) :
                              events[i] \in Range(ServiceEvents(s[1]))

\* a normal message for a recipient with keywords, two fetched sources and
\* a failed one: an event of the fetched sources was filtered out, and the
\* two events kept are listed against the order of their sources
MessageHoldsFilteredEventsWitness ==
    /\ Queued
    /\ \E m \in 1..Len(emailQueue) :
          LET email == emailQueue[m].to
              events == emailQueue[m].events
          IN  /\ emailQueue[m].kind = "summary"
              /\ Cardinality(SourcesOf(email)) = 3
              /\ Cardinality(GoodSourcesOf(email)) = 2
              /\ \A filterKeywords \in KeywordsOfRecords(email) :
                    ~filterKeywords.absent /\ filterKeywords.list # <<>>
              /\ Len(events) = 2
              /\ \E s1, s2 \in GoodSourcesOf(email) :
                    /\ s1[1] < s2[1]
                    /\ events[1] \in Range(ServiceEvents(s2[1]))
                    /\ events[2] \in Range(ServiceEvents(s1[1]))
              /\ \E event \in KnownEvents :
                    /\ SourceCount(email, event) > 0
                    /\ event \notin Range(events)

====
